---- MODULE Spec2Model ----
(***************************************************************************)
(* Verification model of coroot's lazy time-series aggregation             *)
(* (package timeseries: AggregatedTimeseries, aggregatingIterator) and of  *)
(* the SLO burn-rate detector (package model: AlertRules, CheckBurnRates). *)
(***************************************************************************)
EXTENDS Integers, Sequences, FiniteSets, TLC

(***************************************************************************)
(* float64.  A value is a pair <<n, d>> of integers: d > 0 is the rational *)
(* n/d in lowest terms, <<0, 0>> is NaN, <<1, 0>> is +Inf and <<-1, 0>> is *)
(* -Inf.  The operators follow IEEE-754 for NaN, the infinities and        *)
(* division by zero; finite arithmetic is exact (no rounding).             *)
(***************************************************************************)
NaN == <<0, 0>>

Num(n) == <<n, 1>>

IsNaN(x) == x = NaN

Abs(n) == IF n < 0 THEN -n ELSE n

Sign(n) == IF n < 0 THEN -1 ELSE IF n > 0 THEN 1 ELSE 0

RECURSIVE Gcd(_, _)
Gcd(a, b) == IF b = 0 THEN a ELSE Gcd(b, a % b)

\* <<n, d>> with d >= 0 brought to the canonical form described above
Norm(n, d) ==
    IF d = 0 THEN <<Sign(n), 0>>
    ELSE LET g == Gcd(Abs(n), d) IN <<n \div g, d \div g>>

FAdd(x, y) ==
    IF IsNaN(x) \/ IsNaN(y) THEN NaN
    ELSE IF x[2] = 0 /\ y[2] = 0 THEN (IF x = y THEN x ELSE NaN)
    ELSE Norm(x[1] * y[2] + y[1] * x[2], x[2] * y[2])

FSub(x, y) == FAdd(x, <<-y[1], y[2]>>)

FDiv(x, y) ==
    IF IsNaN(x) \/ IsNaN(y) THEN NaN
    ELSE IF y[1] < 0 THEN Norm(-(x[1] * y[2]), -(x[2] * y[1]))
    ELSE Norm(x[1] * y[2], x[2] * y[1])

\* x < y; false whenever an operand is NaN
FLess(x, y) ==
    IF IsNaN(x) \/ IsNaN(y) THEN FALSE
    ELSE IF x[2] = 0 /\ y[2] = 0 THEN x[1] < y[1]
    ELSE x[1] * y[2] < y[1] * x[2]

(***************************************************************************)
(* timeseries.Time and timeseries.Duration: seconds.                       *)
(***************************************************************************)
Minute == 60

Hour == 60 * Minute

Day == 24 * Hour

Before(t, u) == t < u

(***************************************************************************)
(* Reducers, type F func(t Time, accumulator, v float64) float64.  A       *)
(* reducer is a record: its name and, for the closure of sumFrom, the      *)
(* captured `from`.                                                        *)
(***************************************************************************)
Fn(name) == [fn |-> name, from |-> 0]

NanSum(t, sum, v) ==
    IF IsNaN(sum) THEN v
    ELSE IF IsNaN(v) THEN sum
    ELSE FAdd(sum, v)

\* the closure of sumFrom with the point at `from` itself masked too
MaskedSum_MaskAtFrom(from, t, accumulator, v) ==
    IF Before(t, from) \/ t = from THEN Num(0) ELSE NanSum(t, accumulator, v)

\* the closure handed to Reduce by sumFrom
MaskedSum(from, t, accumulator, v) ==
    IF Before(t, from) THEN Num(0) ELSE NanSum(t, accumulator, v)

\* the closure handed to Reduce by AggregatedTimeseries.last
LastValue(t, accumulator, v) == v

Apply(f, t, acc, v) ==
    CASE f.fn = "Plus" -> FAdd(acc, v)
      [] f.fn = "NanSum" -> NanSum(t, acc, v)
      [] f.fn = "Last" -> LastValue(t, acc, v)
      [] f.fn = "SumFrom" -> MaskedSum(f.from, t, acc, v)

(***************************************************************************)
(* TimeSeries values.  kind "nil" is the nil interface value, "leaf" a     *)
(* stored series (data: its points <<Time, float64>>), "agg" an            *)
(* AggregatedTimeseries {input, aggFunc}.                                  *)
(***************************************************************************)
Nil == [kind |-> "nil", data |-> <<>>, input |-> <<>>, aggFunc |-> Fn("none")]

Leaf(data) == [kind |-> "leaf", data |-> data, input |-> <<>>, aggFunc |-> Fn("none")]

Agg(f, input) == [kind |-> "agg", data |-> <<>>, input |-> input, aggFunc |-> f]

RECURSIVE SkipNil(_)
SkipNil(tss) ==
    IF tss = <<>> THEN <<>>
    ELSE IF Head(tss) = Nil THEN SkipNil(Tail(tss))
    ELSE <<Head(tss)>> \o SkipNil(Tail(tss))

\* AddInput without its nil check
AddInput_KeepNil(ts, tss) == [ts EXCEPT !.input = @ \o tss]

\* func (ts *AggregatedTimeseries) AddInput(tss ...TimeSeries)
AddInput(ts, tss) == [ts EXCEPT !.input = @ \o SkipNil(tss)]

RECURSIVE TsLen(_)
RECURSIVE FirstLen(_)
\* the len() of the first non-nil input, 0 when there is none
FirstLen(input) ==
    IF input = <<>> THEN 0
    ELSE IF Head(input) # Nil THEN TsLen(Head(input))
    ELSE FirstLen(Tail(input))

\* ts.len()
TsLen(ts) ==
    CASE ts.kind = "leaf" -> Len(ts.data)
      [] ts.kind = "agg" -> FirstLen(ts.input)
      [] OTHER -> 0

\* ts.isEmpty()
TsIsEmpty(ts) ==
    CASE ts.kind = "leaf" -> Len(ts.data) = 0
      [] ts.kind = "agg" -> Len(ts.input) = 0
      [] OTHER -> TRUE

\* timeseries.IsEmpty(ts)
IsEmpty(ts) == ts = Nil \/ TsIsEmpty(ts)

(***************************************************************************)
(* Iterators.  kind "nil" is *NilIterator, "leaf" the cursor of a stored   *)
(* series (pos: the index of the current point, 0 before the first Next),  *)
(* "agg" an aggregatingIterator {input, aggFunc}.                          *)
(***************************************************************************)
NilIterator == [kind |-> "nil", data |-> <<>>, pos |-> 0, input |-> <<>>, aggFunc |-> Fn("none")]

LeafIterator(data) == [kind |-> "leaf", data |-> data, pos |-> 0, input |-> <<>>, aggFunc |-> Fn("none")]

RECURSIVE Iter(_)
RECURSIVE IterInputs(_)
\* the loop of AggregatedTimeseries.iter without its *NilIterator check
IterInputs_KeepNilIterator(input) ==
    IF input = <<>> THEN <<>>
    ELSE IF Head(input) # Nil
         THEN <<Iter(Head(input))>> \o IterInputs(Tail(input))
         ELSE IterInputs(Tail(input))

\* the loop of AggregatedTimeseries.iter: the iterators of the non-nil inputs
\* that are not a *NilIterator
IterInputs(input) ==
    IF input = <<>> THEN <<>>
    ELSE IF Head(input) # Nil /\ Iter(Head(input)).kind # "nil"
         THEN <<Iter(Head(input))>> \o IterInputs(Tail(input))
         ELSE IterInputs(Tail(input))

\* func (ts *AggregatedTimeseries) iter() Iterator
AggIter(ts) ==
    LET its == IterInputs(ts.input) IN
    IF Len(its) = 0 THEN NilIterator
    ELSE [kind |-> "agg", data |-> <<>>, pos |-> 0, input |-> its, aggFunc |-> ts.aggFunc]

\* ts.iter()
Iter(ts) ==
    CASE ts.kind = "leaf" -> LeafIterator(ts.data)
      [] ts.kind = "agg" -> AggIter(ts)
      [] OTHER -> NilIterator

RECURSIVE Next_(_)
RECURSIVE NextInputs(_, _)
\* the loop of aggregatingIterator.Next from input k on: every input before
\* the first exhausted one has advanced, the ones after it have not
NextInputs(input, k) ==
    IF k > Len(input) THEN [ok |-> TRUE, input |-> input]
    ELSE LET r == Next_(input[k]) IN
         IF ~r.ok THEN [ok |-> FALSE, input |-> [input EXCEPT ![k] = r.it]]
         ELSE NextInputs([input EXCEPT ![k] = r.it], k + 1)

\* func (i *aggregatingIterator) Next() bool
AggNext(it) ==
    LET r == NextInputs(it.input, 1) IN
    [ok |-> r.ok, it |-> [it EXCEPT !.input = r.input]]

\* it.Next(): the result and the iterator after the call
Next_(it) ==
    CASE it.kind = "leaf" ->
            IF it.pos < Len(it.data)
            THEN [ok |-> TRUE, it |-> [it EXCEPT !.pos = @ + 1]]
            ELSE [ok |-> FALSE, it |-> it]
      [] it.kind = "agg" -> AggNext(it)
      [] OTHER -> [ok |-> FALSE, it |-> it]

RECURSIVE Value(_)
RECURSIVE FoldInputs(_, _, _, _, _)
\* the range loop of aggregatingIterator.Value from input k on
FoldInputs(f, input, k, t, acc) ==
    IF k > Len(input) THEN <<t, acc>>
    ELSE LET tv == Value(input[k]) IN
         FoldInputs(f, input, k + 1, tv[1], Apply(f, tv[1], acc, tv[2]))

\* Value without the two-input case: the fold from NaN for every input count
AggValue_AlwaysFold(it) == FoldInputs(it.aggFunc, it.input, 1, 0, NaN)

\* Value with the accumulator of the fold seeded with 0 instead of NaN
AggValue_ZeroSeed(it) ==
    IF Len(it.input) = 2
    THEN LET tv1 == Value(it.input[1])
             tv2 == Value(it.input[2])
         IN <<tv1[1], Apply(it.aggFunc, tv1[1], tv1[2], tv2[2])>>
    ELSE FoldInputs(it.aggFunc, it.input, 1, 0, Num(0))

\* func (i *aggregatingIterator) Value() (Time, float64)
AggValue(it) ==
    IF Len(it.input) = 2
    THEN LET tv1 == Value(it.input[1])
             tv2 == Value(it.input[2])
         IN <<tv1[1], Apply(it.aggFunc, tv1[1], tv1[2], tv2[2])>>
    ELSE FoldInputs(it.aggFunc, it.input, 1, 0, NaN)

\* it.Value()
Value(it) ==
    CASE it.kind = "leaf" -> it.data[it.pos]
      [] it.kind = "agg" -> AggValue(it)
      [] OTHER -> <<0, NaN>>

RECURSIVE Drain(_, _)
\* for iter.Next() { t, v := iter.Value(); ... }: the points a traversal yields
Drain(it, out) ==
    LET r == Next_(it) IN
    IF r.ok THEN Drain(r.it, Append(out, Value(r.it))) ELSE out

Points(ts) == Drain(Iter(ts), <<>>)

RECURSIVE FoldPoints(_, _, _)
FoldPoints(f, pts, acc) ==
    IF pts = <<>> THEN acc
    ELSE FoldPoints(f, Tail(pts), Apply(f, Head(pts)[1], acc, Head(pts)[2]))

\* timeseries.Reduce(f, ts)
Reduce(f, ts) == FoldPoints(f, Points(ts), NaN)
(***************************************************************************)
(* package model: the alert rules and the burn-rate verdict.               *)
(***************************************************************************)
Rule(long, short, threshold, severity) ==
    [LongWindow |-> long, ShortWindow |-> short,
     BurnRateThreshold |-> threshold, Severity |-> severity]

AlertRules ==
    << Rule(Hour, 5 * Minute, Norm(144, 10), "CRITICAL"),
       Rule(6 * Hour, 30 * Minute, Num(6), "CRITICAL"),
       Rule(Day, 2 * Hour, Num(3), "WARNING"),
       Rule(3 * Day, 6 * Hour, Num(1), "WARNING") >>

\* BurnRate{}: the zero Status is UNKNOWN
BurnRate(value, window, severity) ==
    [Value |-> value, Window |-> window, Severity |-> severity]

\* objective := 1 - objectivePercentage/100
Objective(objectivePercentage) ==
    FSub(Num(1), FDiv(Num(objectivePercentage), Num(100)))

\* the closure sumFrom of CheckBurnRates
SumFrom(series, from) == Reduce([fn |-> "SumFrom", from |-> from], series)

\* sumFrom(bad, from) / sumFrom(total, from) / objective
Ratio(bad_, total_, from, objective) ==
    FDiv(FDiv(SumFrom(bad_, from), SumFrom(total_, from)), objective)

\* the fallback overwritten by every rule
RecordFirst_EveryRule(first_, r, br) ==
    [first_ EXCEPT !.Window = r.LongWindow, !.Value = br]

\* if first.Window == 0 { first.Window = r.LongWindow; first.Value = br }
RecordFirst(first_, r, br) ==
    IF first_.Window = 0
    THEN [first_ EXCEPT !.Window = r.LongWindow, !.Value = br]
    ELSE first_

\* the rule without its short-window confirmation
Trips_LongOnly(r, long, short) == ~FLess(long, r.BurnRateThreshold)

\* neither  if br < r.BurnRateThreshold { continue }  is taken
Trips(r, long, short) ==
    /\ ~FLess(long, r.BurnRateThreshold)
    /\ ~FLess(short, r.BurnRateThreshold)

\* the verdict reporting the short window
Verdict_ShortWindow(r, br) == BurnRate(br, r.ShortWindow, r.Severity)

\* return BurnRate{Value: br, Window: r.LongWindow, Severity: r.Severity}
Verdict(r, br) == BurnRate(br, r.LongWindow, r.Severity)

(***************************************************************************)
(* Bounds of the aggregation model.                                        *)
(***************************************************************************)
\* the longest stored series
MaxLen == 2

\* the most inputs of the aggregated series under construction
MaxInputs == 3

(***************************************************************************)
(* The stored series the inputs are drawn from.  Series of base 1 hold     *)
(* 1, 2, 3, ... from time 0 on; series of base 2 hold NaN, 4, NaN, 8, ...  *)
(* and start one step later, so that two inputs differ in value and in     *)
(* timestamp at every step.                                                *)
(***************************************************************************)
BaseValue(b, i) ==
    IF b = 1 THEN Num(i) ELSE IF i % 2 = 1 THEN NaN ELSE Num(2 * i)

StoredSeries(b, n) ==
    Leaf([i \in 1..n |-> <<(b - 1 + i - 1) * Minute, BaseValue(b, i)>>])

AggFuncs == {Fn("Plus"), Fn("NanSum"), Fn("Last")}

EmptyAgg == Agg(Fn("NanSum"), <<>>)

\* what AddInput may be handed: nil, an aggregated series without inputs, a
\* stored series (also one of zero length), an aggregated series of two
\* stored series
InputMenu ==
    {Nil, EmptyAgg, Agg(Fn("NanSum"), <<StoredSeries(2, MaxLen), StoredSeries(1, 1)>>)}
        \cup {StoredSeries(1, n) : n \in 0..MaxLen}
        \cup {StoredSeries(2, n) : n \in 1..MaxLen}

\* the variadic argument lists of one AddInput call
ArgLists == {<<a>> : a \in InputMenu} \cup {<<a, b>> : a \in InputMenu, b \in InputMenu}

(***************************************************************************)
(* Bounds of the burn-rate model.  A stored series of the burn-rate model  *)
(* has one point in each ring that the rules' windows cut around           *)
(* SeriesEnd, and one point older than every window.  The counts and the   *)
(* objectives are chosen so that no ratio falls exactly on a threshold     *)
(* (NoRatioOnThreshold): the rounding of float64, which the exact          *)
(* arithmetic of this model leaves out, then decides no comparison.        *)
(***************************************************************************)
\* the per-point bad counts are 0 or s, for a scale s in 1..MaxBad
MaxBad == 2

\* the per-point total count of a busy and of a quiet service
TotalLow == 5

TotalHigh == 30

SeriesEnd == 10 * Day

Offsets ==
    << 4 * Day, 2 * Day, 12 * Hour, 4 * Hour, 90 * Minute, 45 * Minute, 15 * Minute, 0 >>

NPoints == Len(Offsets)

PointSeries(values) ==
    Leaf([i \in 1..NPoints |-> <<SeriesEnd - Offsets[i], values[i]>>])

\* a series whose history began 45 minutes before SeriesEnd
RecentSeries(v) ==
    Leaf([i \in 1..3 |-> <<SeriesEnd - Offsets[NPoints - 3 + i], v>>])

\* the evaluation instants: the series reaches `now`, or ends an hour before it
Nows == {SeriesEnd, SeriesEnd + Hour}

ObjectivePercentages == {99, 97}

\* series that yield no point: a stored series of zero length, an aggregated
\* series without inputs, an aggregated series of such a series
NoPoints == {Leaf(<<>>), EmptyAgg, Agg(Fn("NanSum"), <<EmptyAgg>>)}

BadMenu ==
    {PointSeries([i \in 1..NPoints |-> Num(s * p[i])]) :
        s \in 1..MaxBad, p \in [1..NPoints -> {0, 1}]}
        \cup {PointSeries([i \in 1..NPoints |-> NaN])} \cup NoPoints
        \cup {RecentSeries(Num(1))}

\* the service's traffic: steady, or stopped (zero, or missing) over the last z points
TotalMenu ==
    {PointSeries([i \in 1..NPoints |-> Num(t)]) : t \in {TotalLow, TotalHigh}}
        \cup {PointSeries([i \in 1..NPoints |-> IF i <= NPoints - z THEN Num(TotalLow) ELSE v]) :
                z \in {1, 3, NPoints}, v \in {Num(0), NaN}}
        \cup NoPoints
        \cup {RecentSeries(Num(TotalLow))}

(***************************************************************************)
(* State.  ts is the AggregatedTimeseries; cur[c] is one consumer's        *)
(* iterator: st is "none" before its iter() call, "live" while Next()      *)
(* returns true and "done" once it returned false; out is what the         *)
(* consumer's loop has read so far.  now, bad, total, objectivePercentage  *)
(* are the arguments of one CheckBurnRates call, pc its position, idx the  *)
(* index of the rule of the current loop round, first its local and res    *)
(* the value it returned.  readOnly is the Api's field, db the mutating     *)
(* operations the handlers have called on api.db, in call order, and resp  *)
(* the handler, the method and the outcome of the last request served.     *)
(***************************************************************************)
VARIABLES ts, cur, now, bad, total, objectivePercentage, pc, idx, first, res,
          readOnly, db, resp

aggVars == <<ts, cur>>

burnVars == <<now, bad, total, objectivePercentage, pc, idx, first, res>>

apiVars == <<readOnly, db, resp>>

vars == <<ts, cur, now, bad, total, objectivePercentage, pc, idx, first, res,
          readOnly, db, resp>>

Consumers == {1, 2}

NoCursor == [st |-> "none", it |-> NilIterator, out |-> <<>>]

Constructing == \A c \in Consumers : cur[c].st = "none"

\* no CheckBurnRates call
BurnIdle ==
    /\ now = 0
    /\ bad = Nil
    /\ total = Nil
    /\ objectivePercentage = 0
    /\ pc = "idle"
    /\ idx = 0
    /\ first = BurnRate(Num(0), 0, "UNKNOWN")
    /\ res = BurnRate(Num(0), 0, "UNKNOWN")

NoResponse == [handler |-> "", method |-> "", status |-> ""]

\* no Api
ApiIdle ==
    /\ readOnly = FALSE
    /\ db = <<>>
    /\ resp = NoResponse

InitAgg ==
    /\ ts \in {Agg(f, <<>>) : f \in AggFuncs}
    /\ cur = [c \in Consumers |-> NoCursor]
    /\ BurnIdle
    /\ ApiIdle

\* ts.AddInput(tss...), during construction only
DoAddInput ==
    /\ Constructing
    /\ \E tss \in ArgLists :
          /\ Len(AddInput(ts, tss).input) <= MaxInputs
          /\ ts' = AddInput(ts, tss)
    /\ UNCHANGED cur
    /\ UNCHANGED burnVars
    /\ UNCHANGED apiVars

\* it := ts.iter()
DoIter(c) ==
    /\ cur[c].st = "none"
    /\ cur' = [cur EXCEPT ![c] = [st |-> "live", it |-> Iter(ts), out |-> <<>>]]
    /\ UNCHANGED ts
    /\ UNCHANGED burnVars
    /\ UNCHANGED apiVars

\* the round with one cursor shared by every iterator of the series: the
\* Next() of one consumer also moves the iterators of the others
DoNext_SharedCursor(c) ==
    /\ cur[c].st # "none"
    /\ LET r == Next_(cur[c].it) IN
       cur' = [d \in Consumers |->
                  IF d = c
                  THEN IF r.ok
                       THEN [st |-> "live", it |-> r.it, out |-> Append(cur[c].out, Value(r.it))]
                       ELSE [st |-> "done", it |-> r.it, out |-> cur[c].out]
                  ELSE IF cur[d].st = "none" THEN cur[d]
                       ELSE [cur[d] EXCEPT !.it = Next_(cur[d].it).it]]
    /\ UNCHANGED ts
    /\ UNCHANGED burnVars
    /\ UNCHANGED apiVars

\* one round of  for it.Next() { t, v := it.Value(); ... }
DoNext(c) ==
    /\ cur[c].st # "none"
    /\ LET r == Next_(cur[c].it) IN
       cur' = [cur EXCEPT ![c] =
                  IF r.ok
                  THEN [st |-> "live", it |-> r.it, out |-> Append(@.out, Value(r.it))]
                  ELSE [st |-> "done", it |-> r.it, out |-> @.out]]
    /\ UNCHANGED ts
    /\ UNCHANGED burnVars
    /\ UNCHANGED apiVars

NextAgg ==
    \/ DoAddInput
    \/ \E c \in Consumers : DoIter(c)
    \/ \E c \in Consumers : DoNext(c)

SpecAgg == InitAgg /\ [][NextAgg]_vars

(***************************************************************************)
(* CheckBurnRates(now, bad, total, objectivePercentage)                    *)
(***************************************************************************)
InitBurn ==
    /\ ts = Agg(Fn("NanSum"), <<>>)
    /\ cur = [c \in Consumers |-> NoCursor]
    /\ now \in Nows
    /\ bad \in BadMenu
    /\ total \in TotalMenu
    /\ objectivePercentage \in ObjectivePercentages
    /\ pc = "entry"
    /\ idx = 1
    /\ first = BurnRate(Num(0), 0, "UNKNOWN")
    /\ res = BurnRate(Num(0), 0, "UNKNOWN")
    /\ ApiIdle

LongRatio(r) == Ratio(bad, total, now - r.LongWindow, Objective(objectivePercentage))

ShortRatio(r) == Ratio(bad, total, now - r.ShortWindow, Objective(objectivePercentage))

\* if timeseries.IsEmpty(bad) || timeseries.IsEmpty(total) { return BurnRate{Severity: UNKNOWN} }
CheckEmpty ==
    /\ pc = "entry"
    /\ IF IsEmpty(bad) \/ IsEmpty(total)
       THEN /\ res' = BurnRate(Num(0), 0, "UNKNOWN")
            /\ pc' = "done"
       ELSE /\ res' = res
            /\ pc' = "rules"
    /\ UNCHANGED <<now, bad, total, objectivePercentage, idx, first>>
    /\ UNCHANGED aggVars
    /\ UNCHANGED apiVars

\* one round of  for _, r := range AlertRules { ... }
EvalRule ==
    /\ pc = "rules"
    /\ idx <= Len(AlertRules)
    /\ LET r == AlertRules[idx]
           long == LongRatio(r)
       IN /\ first' = RecordFirst(first, r, long)
          /\ IF Trips(r, long, ShortRatio(r))
             THEN /\ res' = Verdict(r, ShortRatio(r))
                  /\ pc' = "done"
                  /\ idx' = idx
             ELSE /\ res' = res
                  /\ pc' = pc
                  /\ idx' = idx + 1
    /\ UNCHANGED <<now, bad, total, objectivePercentage>>
    /\ UNCHANGED aggVars
    /\ UNCHANGED apiVars

\* first.Severity = OK; return first
Fallback ==
    /\ pc = "rules"
    /\ idx > Len(AlertRules)
    /\ res' = [first EXCEPT !.Severity = "OK"]
    /\ pc' = "done"
    /\ UNCHANGED <<now, bad, total, objectivePercentage, idx, first>>
    /\ UNCHANGED aggVars
    /\ UNCHANGED apiVars

NextBurn ==
    \/ CheckEmpty
    \/ EvalRule
    \/ Fallback

SpecBurn == InitBurn /\ [][NextBurn]_vars

(***************************************************************************)
(* package api: the handlers that write.  A handler is an operator from    *)
(* the request and the outcomes of what it calls (validation of the form,  *)
(* the Prometheus ping, the Slack lookup, the db) to the mutating db       *)
(* operations it calls, in order, and the response it leaves.  A status    *)
(* "silent" is a return with nothing written, "json" a utils.WriteJson.    *)
(***************************************************************************)
Methods == {"GET", "POST", "DELETE", "PUT"}

ProjectIds == {"", "p1"}

\* the error of a db operation: nil, db.ErrNotFound, db.ErrConflict, another
DbResults == {"ok", "ErrNotFound", "ErrConflict", "error"}

\* a call of a collaborator: it worked, it failed, it answered no
ExtResults == {"ok", "error", "no"}

CheckIds == {"SLOAvailability", "SLOLatency", "other"}

Call(op, project, arg) == [op |-> op, project |-> project, arg |-> arg]

Out(calls, status) == [calls |-> calls, status |-> status]

\* the status after a db operation that only fails or succeeds
AfterDb(dbres, calls, okStatus) ==
    IF dbres # "ok" THEN Out(calls, "500") ELSE Out(calls, okStatus)

\* func (api *Api) Project(w, r)
Project(method, id, valid, ping, dbres) ==
    CASE method = "GET" ->
           IF id = "" THEN Out(<<>>, "json")
           ELSE IF dbres = "ErrNotFound" THEN Out(<<>>, "silent")
           ELSE AfterDb(dbres, <<>>, "json")
      [] method = "POST" ->
           IF readOnly THEN Out(<<>>, "silent")
           ELSE IF ~valid THEN Out(<<>>, "400")
           ELSE IF ping = "error" THEN Out(<<>>, "500")
           ELSE IF ping = "no" THEN Out(<<>>, "502")
           ELSE IF dbres = "ErrConflict"
                THEN Out(<<Call("SaveProject", id, "")>>, "409")
           ELSE AfterDb(dbres, <<Call("SaveProject", id, "")>>, "200")
      [] method = "DELETE" ->
           IF readOnly THEN Out(<<>>, "silent")
           ELSE AfterDb(dbres, <<Call("DeleteProject", id, "")>>, "200")
      [] OTHER -> Out(<<>>, "405")

\* func (api *Api) Status(w, r); toggle is the field the form has set
Status(method, projectId, valid, toggle, dbres, ext) ==
    IF method = "POST"
    THEN IF readOnly THEN Out(<<>>, "silent")
         ELSE IF ~valid THEN Out(<<>>, "400")
         ELSE AfterDb(dbres,
                      <<Call("ToggleConfigurationHint", projectId,
                             IF toggle = "Mute" THEN "mute" ELSE "unmute")>>,
                      "silent")
    ELSE IF dbres = "ErrNotFound" THEN Out(<<>>, "json")
         ELSE IF dbres # "ok" \/ ext # "ok" THEN Out(<<>>, "500")
         ELSE Out(<<>>, "json")

\* func (api *Api) Categories(w, r)
Categories(method, projectId, valid, dbres) ==
    IF method = "POST"
    THEN IF readOnly THEN Out(<<>>, "silent")
         ELSE IF ~valid THEN Out(<<>>, "400")
         ELSE AfterDb(dbres, <<Call("SaveApplicationCategory", projectId, "")>>, "silent")
    ELSE AfterDb(dbres, <<>>, "json")

\* func (api *Api) Integrations(w, r)
Integrations(method, projectId, valid, dbres) ==
    IF method = "POST"
    THEN IF readOnly THEN Out(<<>>, "silent")
         ELSE IF ~valid THEN Out(<<>>, "400")
         ELSE AfterDb(dbres, <<Call("SaveIntegrationsBaseUrl", projectId, "")>>, "silent")
    ELSE AfterDb(dbres, <<>>, "json")

\* IntegrationsSlack with the readOnly test of its DELETE branch left out
IntegrationsSlack_DeleteUnguarded(method, projectId, valid, slack, dbres) ==
    CASE method = "POST" ->
           IF readOnly THEN Out(<<>>, "silent")
           ELSE IF ~valid THEN Out(<<>>, "400")
           ELSE IF slack # "ok" THEN Out(<<>>, "400")
           ELSE AfterDb(dbres, <<Call("SaveIntegrationsSlack", projectId, "cfg")>>, "silent")
      [] method = "DELETE" ->
           AfterDb(dbres, <<Call("SaveIntegrationsSlack", projectId, "nil")>>, "silent")
      [] OTHER -> AfterDb(dbres, <<>>, "json")

\* func (api *Api) IntegrationsSlack(w, r)
IntegrationsSlack(method, projectId, valid, slack, dbres) ==
    CASE method = "POST" ->
           IF readOnly THEN Out(<<>>, "silent")
           ELSE IF ~valid THEN Out(<<>>, "400")
           ELSE IF slack # "ok" THEN Out(<<>>, "400")
           ELSE AfterDb(dbres, <<Call("SaveIntegrationsSlack", projectId, "cfg")>>, "silent")
      [] method = "DELETE" ->
           IF readOnly THEN Out(<<>>, "silent")
           ELSE AfterDb(dbres, <<Call("SaveIntegrationsSlack", projectId, "nil")>>, "silent")
      [] OTHER -> AfterDb(dbres, <<>>, "json")

\* the application ids of the levels 1.. of a CheckConfigForm that the loop
\* of Check saves: level 0 is skipped, level 2 is the application of the
\* request, level 1 is ApplicationIdZero and a level beyond 2 leaves id at
\* its zero value
SavedLevels(n) == [i \in 1..(n - 1) |-> IF i = 2 THEN "app" ELSE "zero"]

\* for level, cfg := range form.Configs { ... SaveCheckConfig ... }: the
\* calls up to and with the first that fails (failAt; 0: none fails)
SaveLevels(projectId, n, failAt) ==
    LET ids == SavedLevels(n)
        made == IF failAt \in 1..Len(ids) THEN SubSeq(ids, 1, failAt) ELSE ids
    IN Out([i \in 1..Len(made) |-> Call("SaveCheckConfig", projectId, made[i])],
           IF failAt \in 1..Len(ids) THEN "500" ELSE "silent")

\* func (api *Api) Check(w, r); n is the number of configs of the form (POST)
\* or of the check (GET), failAt the db call of the request that fails
Check(method, projectId, appValid, checkId, valid, n, failAt) ==
    IF ~appValid THEN Out(<<>>, "400")
    ELSE CASE method = "GET" ->
                IF failAt # 0 THEN Out(<<>>, "500")
                ELSE IF checkId = "other" /\ n = 0 THEN Out(<<>>, "404")
                ELSE Out(<<>>, "json")
           [] method = "POST" ->
                IF readOnly THEN Out(<<>>, "silent")
                ELSE IF ~valid THEN Out(<<>>, "400")
                ELSE IF checkId = "other" THEN SaveLevels(projectId, n, failAt)
                ELSE Out(<<Call("SaveCheckConfig", projectId, "app")>>,
                         IF failAt = 1 THEN "500" ELSE "silent")
           [] OTHER -> Out(<<>>, "silent")

\* the db calls one Api may make before the model stops serving it
MaxCalls == 1

\* the most configs a CheckConfigForm holds: one per level
MaxLevels == 3

\* NewApi(cache, db, stats, readOnly)
InitApi ==
    /\ ts = Agg(Fn("NanSum"), <<>>)
    /\ cur = [c \in Consumers |-> NoCursor]
    /\ BurnIdle
    /\ readOnly \in BOOLEAN
    /\ db = <<>>
    /\ resp = NoResponse

\* one request served by handler h with outcome out
Serve(h, method, out) ==
    /\ Len(db) < MaxCalls
    /\ db' = db \o out.calls
    /\ resp' = [handler |-> h, method |-> method, status |-> out.status]
    /\ UNCHANGED readOnly
    /\ UNCHANGED aggVars
    /\ UNCHANGED burnVars

DoProject ==
    \E method \in Methods, id \in ProjectIds, valid \in BOOLEAN,
       ping \in ExtResults, dbres \in DbResults :
        Serve("Project", method, Project(method, id, valid, ping, dbres))

DoStatus ==
    \E method \in Methods, projectId \in ProjectIds, valid \in BOOLEAN,
       toggle \in {"Mute", "UnMute", ""}, dbres \in DbResults, ext \in ExtResults :
        Serve("Status", method, Status(method, projectId, valid, toggle, dbres, ext))

DoCategories ==
    \E method \in Methods, projectId \in ProjectIds, valid \in BOOLEAN,
       dbres \in DbResults :
        Serve("Categories", method, Categories(method, projectId, valid, dbres))

DoIntegrations ==
    \E method \in Methods, projectId \in ProjectIds, valid \in BOOLEAN,
       dbres \in DbResults :
        Serve("Integrations", method, Integrations(method, projectId, valid, dbres))

DoIntegrationsSlack ==
    \E method \in Methods, projectId \in ProjectIds, valid \in BOOLEAN,
       slack \in ExtResults, dbres \in DbResults :
        Serve("IntegrationsSlack", method,
              IntegrationsSlack(method, projectId, valid, slack, dbres))

DoCheck ==
    \E method \in Methods, projectId \in ProjectIds, appValid \in BOOLEAN,
       checkId \in CheckIds, valid \in BOOLEAN, n \in 0..MaxLevels, failAt \in 0..(MaxLevels - 1) :
        Serve("Check", method,
              Check(method, projectId, appValid, checkId, valid, n, failAt))

NextApi ==
    \/ DoProject
    \/ DoStatus
    \/ DoCategories
    \/ DoIntegrations
    \/ DoIntegrationsSlack
    \/ DoCheck

SpecApi == InitApi /\ [][NextApi]_vars

(***************************************************************************)
(* Properties of the aggregation (checked under SpecAgg).                  *)
(***************************************************************************)
Min2(a, b) == IF a <= b THEN a ELSE b

IsPrefix(s, t) == Len(s) <= Len(t) /\ \A i \in 1..Len(s) : s[i] = t[i]

\* the number of points a traversal of series s yields
Yields(s) == Len(Points(s))

RECURSIVE MinYield(_)
\* the fewest points any series of the list yields (0 for the empty list)
MinYield(input) ==
    IF input = <<>> THEN 0
    ELSE IF Len(input) = 1 THEN Yields(Head(input))
    ELSE Min2(Yields(Head(input)), MinYield(Tail(input)))

\* an input whose iter() is an iterator other than the *NilIterator
Usable(s) == s # Nil /\ Iter(s).kind # "nil"

UsableInputs(input) == SelectSeq(input, Usable)

Started == {c \in Consumers : cur[c].st # "none"}

\* C2 as stated: a traversal of an aggregated series over non-nil inputs
\* yields exactly as many points as the shortest of ALL its inputs yields,
\* an input that yields no point included, and never more than that.
C2_ShortestOfAllInputs ==
    \A c \in Started :
        ts.input # <<>> =>
            /\ Len(cur[c].out) <= MinYield(ts.input)
            /\ cur[c].st = "done" => Len(cur[c].out) = MinYield(ts.input)

\* C2 as amended: a traversal yields exactly as many points as the shortest
\* of the inputs whose iter() is not the *NilIterator yields (none when there
\* is no such input); once Next() returned false nothing more is yielded.
C2_ShortestUsableInput ==
    \A c \in Started :
        /\ Len(cur[c].out) <= MinYield(UsableInputs(ts.input))
        /\ cur[c].st = "done" => Len(cur[c].out) = MinYield(UsableInputs(ts.input))

\* a finished traversal over inputs of different lengths, one of them skipped
C2_Witness ==
    \E c \in Started :
        LET u == UsableInputs(ts.input) IN
        /\ cur[c].st = "done"
        /\ Len(u) >= 2
        /\ Len(u) < Len(ts.input)
        /\ Yields(u[1]) > Yields(u[2])
        /\ Len(cur[c].out) = Yields(u[2])
        /\ Len(cur[c].out) >= 1

\* C3 as stated: the len() of an aggregated series of two inputs is the
\* smaller of the two inputs' len(), in either order of the inputs.
C3_LenIsShorterInput ==
    Len(ts.input) = 2 =>
        TsLen(ts) = Min2(TsLen(ts.input[1]), TsLen(ts.input[2]))

\* C4: an aggregatingIterator over exactly two inputs yields at step k the
\* point (t_k, F(t_k, a_k, b_k)) of the k-th points (t_k, a_k) of its input 0
\* and (_, b_k) of its input 1; no accumulator enters the call.
C4_FanInOfTwo ==
    \A c \in Started :
        (cur[c].it.kind = "agg" /\ Len(cur[c].it.input) = 2) =>
            LET u == UsableInputs(ts.input)
                a == Points(u[1])
                b == Points(u[2])
            IN \A k \in 1..Len(cur[c].out) :
                  cur[c].out[k] =
                      <<a[k][1], Apply(ts.aggFunc, a[k][1], a[k][2], b[k][2])>>

\* with F = plus a step where both inputs are present yields their sum
C4_Witness ==
    \E c \in Started :
        /\ cur[c].it.kind = "agg"
        /\ Len(cur[c].it.input) = 2
        /\ ts.aggFunc = Fn("Plus")
        /\ LET u == UsableInputs(ts.input)
               a == Points(u[1])
               b == Points(u[2])
           IN \E k \in 1..Len(cur[c].out) :
                 /\ ~IsNaN(a[k][2])
                 /\ ~IsNaN(b[k][2])
                 /\ a[k][2] # b[k][2]
                 /\ a[k][1] # b[k][1]
                 /\ cur[c].out[k] = <<a[k][1], FAdd(a[k][2], b[k][2])>>

\* the k-th points of the series of list u, in the order of the list
StepPoints(u, k) == [i \in 1..Len(u) |-> Points(u[i])[k]]

RECURSIVE FoldLeft(_, _, _)
\* F(t, ... F(t, F(t, acc, v_0), v_1) ..., v_n-1) over points <<t, v_i>>
FoldLeft(f, pts, acc) ==
    IF pts = <<>> THEN acc
    ELSE FoldLeft(f, Tail(pts), Apply(f, Head(pts)[1], acc, Head(pts)[2]))

RECURSIVE PresentSum(_)
\* the sum of the values of the points that are not NaN, NaN when all are
PresentSum(pts) ==
    IF pts = <<>> THEN NaN
    ELSE LET rest == PresentSum(Tail(pts))
             v == Head(pts)[2]
         IN IF IsNaN(v) THEN rest
            ELSE IF IsNaN(rest) THEN v
            ELSE FAdd(v, rest)

\* C11: an aggregatingIterator over one input or over more than two inputs
\* yields at every step the left-to-right fold of the inputs' values of that
\* step from a fresh NaN accumulator, in input-list order; with the NaN-aware
\* sum as F that is the sum of the present values, NaN only if all are NaN.
C11_SequentialFold ==
    \A c \in Started :
        (cur[c].it.kind = "agg" /\ Len(cur[c].it.input) # 2) =>
            LET u == UsableInputs(ts.input) IN
            \A k \in 1..Len(cur[c].out) :
                /\ cur[c].out[k][2] = FoldLeft(ts.aggFunc, StepPoints(u, k), NaN)
                /\ ts.aggFunc = Fn("NanSum") =>
                       cur[c].out[k][2] = PresentSum(StepPoints(u, k))

\* three inputs under the NaN-aware sum, at a step where one of them is
\* missing and the others are present: the sum of the present ones
C11_Witness ==
    \E c \in Started :
        /\ cur[c].it.kind = "agg"
        /\ Len(cur[c].it.input) = 3
        /\ ts.aggFunc = Fn("NanSum")
        /\ \E k \in 1..Len(cur[c].out) :
              LET p == StepPoints(UsableInputs(ts.input), k) IN
              /\ IsNaN(p[2][2])
              /\ ~IsNaN(p[1][2])
              /\ ~IsNaN(p[3][2])
              /\ cur[c].out[k][2] = FAdd(p[1][2], p[3][2])

\* the argument lists that hold nothing but nil
NilArgLists == {<<Nil>>, <<Nil, Nil>>}

\* C9: an aggregated series that was handed only nil inputs, or none, is
\* empty: isEmpty() is true, len() is 0, iter() is the *NilIterator, whose
\* Next() returns false at once, so that a traversal yields nothing.
C9_OnlyNilInputsIsEmpty ==
    /\ \A tss \in NilArgLists :
          ts.input = <<>> =>
              LET t == AddInput(ts, tss) IN
              /\ TsIsEmpty(t)
              /\ TsLen(t) = 0
              /\ Iter(t) = NilIterator
              /\ ~Next_(Iter(t)).ok
    /\ ts.input = <<>> =>
          \A c \in Started : cur[c].it = NilIterator /\ cur[c].out = <<>>

\* a traversal of a series without inputs has ended
C9_Witness ==
    \E c \in Started : ts.input = <<>> /\ cur[c].st = "done" /\ cur[c].out = <<>>

\* C10: once the series is constructed no step changes it, iter() included,
\* and all its iterators yield the same sequence of points from the first
\* timestep, whatever the interleaving of their traversals.
C10_Restartable ==
    [][/\ ~Constructing => ts' = ts
       /\ \A c \in Consumers, d \in Consumers :
             (cur'[c].st # "none" /\ cur'[d].st # "none") =>
                 /\ IsPrefix(cur'[c].out, cur'[d].out) \/ IsPrefix(cur'[d].out, cur'[c].out)
                 /\ cur'[c].st = "done" => IsPrefix(cur'[d].out, cur'[c].out)]_vars

\* one traversal has ended, a second one, begun later, is under way
C10_Witness ==
    /\ cur[1].st = "done"
    /\ Len(cur[1].out) >= 2
    /\ cur[2].st = "live"
    /\ Len(cur[2].out) = 1

(***************************************************************************)
(* Properties of CheckBurnRates (checked under SpecBurn).                  *)
(***************************************************************************)
Returned == pc = "done"

NoRule == BurnRate(Num(0), 0, "UNKNOWN")

\* the call returned from the loop body, at rule idx
Tripped == Returned /\ res.Severity \in {"CRITICAL", "WARNING"}

RuleIds == 1..Len(AlertRules)

LongNotBelow(k) == ~FLess(LongRatio(AlertRules[k]), AlertRules[k].BurnRateThreshold)

ShortNotBelow(k) == ~FLess(ShortRatio(AlertRules[k]), AlertRules[k].BurnRateThreshold)

\* no finite ratio of the model's inputs equals a rule's threshold
NoRatioOnThreshold ==
    \A k \in RuleIds :
        /\ LongRatio(AlertRules[k]) # AlertRules[k].BurnRateThreshold
        /\ ShortRatio(AlertRules[k]) # AlertRules[k].BurnRateThreshold

\* C1 as stated: no rule returns its verdict when the windowed sum of
\* `total` over its long window or over its short window is zero.
C1_NeverTripsOnAbsentTotal ==
    Tripped =>
        /\ SumFrom(total, now - AlertRules[idx].LongWindow) # Num(0)
        /\ SumFrom(total, now - AlertRules[idx].ShortWindow) # Num(0)

\* C5: the call returns, for the first rule in table order whose long-window
\* and short-window ratios are both not below its threshold, the verdict
\* {short-window ratio, LongWindow, Severity} of that rule, and evaluates no
\* later rule.
C5_FirstMatchingRuleWins ==
    (Returned /\ ~IsEmpty(bad) /\ ~IsEmpty(total)) =>
        \A k \in RuleIds :
            (/\ LongNotBelow(k)
             /\ ShortNotBelow(k)
             /\ \A j \in 1..(k - 1) : ~(LongNotBelow(j) /\ ShortNotBelow(j))) =>
                /\ res = BurnRate(ShortRatio(AlertRules[k]),
                                  AlertRules[k].LongWindow, AlertRules[k].Severity)
                /\ idx = k

\* bad/total is 20 times the allowed failure fraction over every window: the
\* verdict is that of the first rule
C5_Witness ==
    /\ Returned
    /\ \A k \in RuleIds :
          /\ LongRatio(AlertRules[k]) = Num(20)
          /\ ShortRatio(AlertRules[k]) = Num(20)
    /\ res = BurnRate(Num(20), Hour, "CRITICAL")

\* the round of rule idx finds the long-window ratio not below the threshold
\* and the short-window ratio below it
FallsThrough(k) == LongNotBelow(k) /\ ~ShortNotBelow(k)

\* C6: a rule whose long-window ratio is at or above its threshold and whose
\* short-window ratio is below it returns nothing: the loop goes on to the
\* next rule, and the value returned in the end is not that rule's verdict.
C6_ShortWindowConfirms ==
    [][/\ (pc = "rules" /\ idx \in RuleIds /\ FallsThrough(idx)) =>
              (pc' = "rules" /\ idx' = idx + 1 /\ res' = res)
       /\ pc' = "done" =>
              \A k \in RuleIds :
                  (~IsEmpty(bad) /\ ~IsEmpty(total) /\ FallsThrough(k)) =>
                      ~(res'.Window = AlertRules[k].LongWindow
                          /\ res'.Severity = AlertRules[k].Severity)]_vars

\* the first rule was not confirmed by its short window and the second rule,
\* with its own windows, returned
C6_Witness ==
    /\ Returned
    /\ FallsThrough(1)
    /\ res = BurnRate(ShortRatio(AlertRules[2]), 6 * Hour, "CRITICAL")

\* C7: with both inputs non-empty and every rule below its threshold on its
\* long or its short window, the call returns {Severity: OK, Window: the first
\* rule's LongWindow (1h), Value: the first rule's long-window ratio}.
C7_FallbackIsFirstRule ==
    (/\ Returned
     /\ ~IsEmpty(bad)
     /\ ~IsEmpty(total)
     /\ \A k \in RuleIds : ~(LongNotBelow(k) /\ ShortNotBelow(k))) =>
        /\ res = BurnRate(LongRatio(AlertRules[1]), AlertRules[1].LongWindow, "OK")
        /\ res.Window = Hour

\* no rule tripped, and the long-window ratios of the rules differ
C7_Witness ==
    /\ Returned
    /\ res.Severity = "OK"
    /\ res.Value # Num(0)
    /\ \A k \in RuleIds \ {1} :
          LongRatio(AlertRules[k]) # LongRatio(AlertRules[1])

\* C8 as stated: whenever `bad` or `total` has zero length the call returns
\* {Severity: UNKNOWN, Value: 0, Window: 0} without evaluating a rule.
C8_ZeroLengthIsUnknown ==
    (Returned /\ (TsLen(bad) = 0 \/ TsLen(total) = 0)) =>
        /\ res = NoRule
        /\ idx = 1
        /\ first = NoRule

\* the rule whose loop round ran last: every rule the call evaluates is this
\* one in the state its round leaves
Evaluated ==
    CASE pc = "rules" /\ idx > 1 -> {idx - 1}
      [] Tripped -> {idx}
      [] OTHER -> {}

\* the two sums' `from` of a rule
Froms(r) == {now - r.LongWindow, now - r.ShortWindow}

Increasing(pts) == \A i \in 1..(Len(pts) - 1) : pts[i][1] < pts[i + 1][1]

\* the points with a timestamp not before `from`
InWindow(pts, from) ==
    LET NotBefore(p) == ~Before(p[1], from) IN SelectSeq(pts, NotBefore)

HasPointBefore(pts, from) == \E i \in 1..Len(pts) : Before(pts[i][1], from)

\* C12 as stated: sumFrom(series, from) of a series with increasing
\* timestamps is the NaN-aware sum of exactly the points not before `from`.
C12_SumOfPointsInWindow ==
    \A k \in Evaluated : \A from \in Froms(AlertRules[k]) : \A series \in {bad, total} :
        Increasing(Points(series)) =>
            SumFrom(series, from) = PresentSum(InWindow(Points(series), from))

\* C12: sumFrom(series, from) of a series with increasing timestamps is the
\* NaN-aware sum of the series with every value before `from` replaced by
\* zero.  With a point before `from` it is the sum of the present values not
\* before `from`, and 0 when there is none; without one it is the NaN-aware
\* sum of all the points the series has.
C12_MaskedWindowedSum ==
    \A k \in Evaluated : \A from \in Froms(AlertRules[k]) : \A series \in {bad, total} :
        LET pts == Points(series)
            inside == PresentSum(InWindow(pts, from))
            sum == SumFrom(series, from)
        IN Increasing(pts) =>
               /\ sum = PresentSum([i \in 1..Len(pts) |->
                            IF Before(pts[i][1], from) THEN <<pts[i][1], Num(0)>> ELSE pts[i]])
               /\ sum = IF HasPointBefore(pts, from)
                        THEN (IF IsNaN(inside) THEN Num(0) ELSE inside)
                        ELSE PresentSum(pts)

\* a rule's long window cuts `bad` between two of its non-zero points and
\* reaches back beyond the first point of `total`
C12_Witness ==
    \E k \in Evaluated :
        LET from == now - AlertRules[k].LongWindow
            b == Points(bad)
            t == Points(total)
        IN /\ \E i \in 1..Len(b) : Before(b[i][1], from) /\ b[i][2] # Num(0)
           /\ SumFrom(bad, from) = PresentSum(InWindow(b, from))
           /\ SumFrom(bad, from) # Num(0)
           /\ SumFrom(bad, from) # PresentSum(b)
           /\ Len(t) > 0
           /\ ~HasPointBefore(t, from)
           /\ SumFrom(total, from) = PresentSum(t)

(***************************************************************************)
(* Properties of the handlers (checked under SpecApi).                     *)
(***************************************************************************)
MutatingOps ==
    {"SaveProject", "DeleteProject", "ToggleConfigurationHint", "SaveApplicationCategory",
     "SaveIntegrationsBaseUrl", "SaveIntegrationsSlack", "SaveCheckConfig"}

\* C13: with readOnly = true no request to Project, Status, Categories,
\* Integrations, IntegrationsSlack or Check, whatever its method, calls a
\* mutating db operation: readOnly stays set, the list of the mutating calls
\* made is empty before and after every request, so what is stored does not
\* change.
C13_ReadOnlyNoWrites ==
    [][readOnly =>
          /\ readOnly'
          /\ db' = db
          /\ \A i \in 1..Len(db') : db'[i].op \notin MutatingOps]_vars

\* a read-only Api has served a DELETE of the Slack integration
C13_Witness ==
    /\ readOnly
    /\ resp = [handler |-> "IntegrationsSlack", method |-> "DELETE", status |-> "silent"]
    /\ db = <<>>

====
